---- MODULE Spec2Model ----
(***************************************************************************)
(* Model of the concurrent pipeline of tensile (src/tensile.go):           *)
(* dispatcher -> reqChan -> workers -> respChan -> consumer, with the      *)
(* buffered quit channel as the cancellation side channel.                 *)
(*                                                                         *)
(* Both reqChan and respChan are unbuffered (main, lines 222-223), so a    *)
(* send and the matching receive are one rendezvous step.  quit is         *)
(* buffered with capacity max (line 224); only the number of tokens in     *)
(* its buffer matters, every token being the value true.                   *)
(*                                                                         *)
(* A panic in any goroutine ends the Go process: once panicked is TRUE no  *)
(* action is enabled.  Goroutines that are still alive when consumer       *)
(* returns are modelled as running on for as long as they can.             *)
(*                                                                         *)
(* Spec is the program; SpecTraced is the same program with the identity   *)
(* of every request and the failure lines of the log recorded; SpecKill    *)
(* adds a second call of killWorkers; SpecNewReq starts from a urlStr that *)
(* http.NewRequest may reject.                                             *)
(* SpecLate counts the requests accepted after killWorkers returned.       *)
(***************************************************************************)
EXTENDS Integers, FiniteSets, TLC

\* ---- bounds of the model ----
MaxReqs == 3
MaxConc == 2
MaxErrLimit == 2

\* ---- program constants ----
Unlimited == -1

\* A classification that starts one status too high.
ErrStatus_high == 400 + 1

ErrStatus == 400

\* Values the transport is made to report: a success with an unknown (-1)
\* or a known length, a failing status with a body, or no response at all.
OkStatuses == {200}
FailStatuses == {400, 500}
ContentLengths == {-1, 15}

\* Worker slots; one more than the largest pool so that a pool that
\* spawned one worker too many would be visible.
Workers == 1..(MaxConc + 1)

\* Requests by the loop iteration that builds them (line 77); one more than
\* the largest run so that a request too many would be visible.
Descs == 1..(MaxReqs + 1)

NoResp == [err |-> FALSE, nilResp |-> TRUE, StatusCode |-> 0, ContentLength |-> 0]

\* Results of t.RoundTrip(req): (resp, nil) or (nil, err).
RoundTripResults ==
    {[err |-> FALSE, nilResp |-> FALSE, StatusCode |-> st, ContentLength |-> cl] :
        st \in OkStatuses, cl \in ContentLengths}
    \cup {[err |-> FALSE, nilResp |-> FALSE, StatusCode |-> st, ContentLength |-> 15] :
        st \in FailStatuses}
    \cup {[err |-> TRUE, nilResp |-> TRUE, StatusCode |-> 0, ContentLength |-> 0]}

VARIABLES
    reqs, max, maxErr,                  \* configuration after checkFlags
    newReqErr,                          \* http.NewRequest(urlStr) returns an error
    dpc, i, reqChanClosed,              \* dispatcher
    ppc, pi, wgCount, idleClosed, respChanClosed,   \* workerPool
    wpc, held,                          \* workers
    quit, quitClosed,                   \* quit channel
    cpc, conns, size, prevStatus, numErr,           \* consumer
    panicked,
    \* history of the run
    killCalls, killSends, drained, nOk, nFail, sumSizes, closed,
    \* the request each worker holds, what happened to every request, and
    \* the failure lines of the log; written by the traced steps only
    wreq, accCount, resCount, obsCount, lastFail, logged,
    \* requests accepted after killWorkers returned; written by HandoffLate only
    lateAcc

cfgVars  == <<reqs, max, maxErr, newReqErr>>
dispVars == <<dpc, i, reqChanClosed>>
poolVars == <<ppc, pi, wgCount, idleClosed, respChanClosed>>
workVars == <<wpc, held>>
quitVars == <<quit, quitClosed>>
consVars == <<cpc, conns, size, prevStatus, numErr>>
histVars == <<killCalls, killSends, drained, nOk, nFail, sumSizes, closed>>
traceVars == <<wreq, accCount, resCount, obsCount, lastFail, logged, lateAcc>>
vars == <<cfgVars, dispVars, poolVars, workVars, quitVars, consVars, panicked, histVars, traceVars>>

\* checkFlags, lines 212-215: max is clamped to reqs.
ClampMax(m, r) == IF m > r THEN r ELSE m

\* main, line 224: quit := make(chan bool, max)
QuitCap == max

InitRun ==
    /\ reqs \in 1..MaxReqs
    /\ \E m \in 1..MaxConc : max = ClampMax(m, reqs)
    /\ maxErr \in {Unlimited} \cup (1..MaxErrLimit)
    /\ dpc = "select" /\ i = 0 /\ reqChanClosed = FALSE
    /\ ppc = "spawn" /\ pi = 0 /\ wgCount = 0
    /\ idleClosed = FALSE /\ respChanClosed = FALSE
    /\ wpc = [w \in Workers |-> "unspawned"]
    /\ held = [w \in Workers |-> NoResp]
    /\ quit = 0 /\ quitClosed = FALSE
    /\ cpc = "recv" /\ conns = 0 /\ size = 0 /\ prevStatus = 0 /\ numErr = 0
    /\ panicked = FALSE
    /\ killCalls = 0 /\ killSends = 0 /\ drained = 0
    /\ nOk = 0 /\ nFail = 0 /\ sumSizes = 0
    /\ wreq = [w \in Workers |-> 0]
    /\ accCount = [d \in Descs |-> 0]
    /\ resCount = [d \in Descs |-> 0]
    /\ obsCount = [d \in Descs |-> 0]
    /\ closed = 0 /\ lastFail = 0 /\ logged = FALSE
    /\ lateAcc = 0

\* checkFlags, lines 193-196, has parsed urlStr with url.Parse, the parse
\* http.NewRequest does, so NewRequest (line 77) does not fail.
Init == InitRun /\ newReqErr = FALSE

\* The same run with a urlStr for which http.NewRequest may return an error.
InitNewReq == InitRun /\ newReqErr \in BOOLEAN

\* A quit channel on which nothing is ever seen.
QuitReady_never == FALSE

\* A receive from quit is ready when its buffer holds a token or it is closed.
QuitReady == quit > 0 \/ quitClosed

\* The buffer after one receive from quit (a closed, empty channel stays empty).
QuitAfterRecv == IF quit > 0 THEN quit - 1 ELSE quit

----------------------------------------------------------------------------
\* ---- dispatcher, lines 74-89 ----

\* A dispatcher whose loop runs once too often.
DispatcherLoopCond_long == i <= reqs

\* A dispatcher whose loop stops one descriptor short.
DispatcherLoopCond_short == i < reqs - 1

\* line 76: the loop condition i < reqs
DispatcherLoopCond == i < reqs

\* The loop ends after the last send; the deferred close(reqChan) runs.
DispatcherLoopExit ==
    /\ ~panicked /\ dpc = "select" /\ ~DispatcherLoopCond
    /\ dpc' = "done" /\ reqChanClosed' = TRUE
    /\ UNCHANGED <<i, cfgVars, poolVars, workVars, quitVars, consVars, panicked, histVars, traceVars>>

\* lines 81-83: case <-quit: return (and the deferred close(reqChan)).
DispatcherQuit ==
    /\ ~panicked /\ dpc = "select" /\ DispatcherLoopCond /\ QuitReady
    /\ quit' = QuitAfterRecv
    /\ dpc' = "done" /\ reqChanClosed' = TRUE
    /\ UNCHANGED <<i, quitClosed, cfgVars, poolVars, workVars, consVars, panicked, histVars, traceVars>>

\* lines 77-80 and 85: after a failed NewRequest the error is logged and req
\* is nil; req.Header.Add then dereferences it.
HeaderAddPanics == newReqErr

\* lines 84-86: default branch, the dispatcher adds the header and goes on
\* to reqChan <- req.
DispatcherDefault ==
    /\ ~panicked /\ dpc = "select" /\ DispatcherLoopCond /\ ~QuitReady
    /\ IF HeaderAddPanics
       THEN panicked' = TRUE /\ UNCHANGED dpc
       ELSE dpc' = "send" /\ UNCHANGED panicked
    /\ UNCHANGED <<i, reqChanClosed, cfgVars, poolVars, workVars, quitVars, consVars, histVars, traceVars>>

----------------------------------------------------------------------------
\* ---- workerPool, lines 92-101 ----

\* A pool whose loop runs once too often.
PoolLoopCond_extra(k) == k <= max

\* line 97: the loop condition i < max
PoolLoopCond(k) == k < max

\* lines 98-99: wg.Add(1); go worker(...)
PoolSpawn ==
    /\ ~panicked /\ ppc = "spawn" /\ PoolLoopCond(pi)
    /\ pi' = pi + 1
    /\ wgCount' = wgCount + 1
    /\ wpc' = [wpc EXCEPT ![pi + 1] = "wait"]
    /\ UNCHANGED <<ppc, idleClosed, respChanClosed, held, cfgVars, dispVars, quitVars, consVars, panicked, histVars, traceVars>>

\* The loop is over; the function body ends and the deferred calls start.
PoolSpawnDone ==
    /\ ~panicked /\ ppc = "spawn" /\ ~PoolLoopCond(pi)
    /\ ppc' = "wait"
    /\ UNCHANGED <<pi, wgCount, idleClosed, respChanClosed, cfgVars, dispVars, workVars, quitVars, consVars, panicked, histVars, traceVars>>

\* A wait that returns while one worker is still running.
WaitReturns_early(c) == c <= 1

\* line 96: defer wg.Wait() returns when the counter is zero.
WaitReturns(c) == c = 0

PoolWait ==
    /\ ~panicked /\ ppc = "wait" /\ WaitReturns(wgCount)
    /\ ppc' = "closeIdle"
    /\ UNCHANGED <<pi, wgCount, idleClosed, respChanClosed, cfgVars, dispVars, workVars, quitVars, consVars, panicked, histVars, traceVars>>

\* line 95: defer t.CloseIdleConnections()
PoolCloseIdle ==
    /\ ~panicked /\ ppc = "closeIdle"
    /\ idleClosed' = TRUE
    /\ ppc' = "closeResp"
    /\ UNCHANGED <<pi, wgCount, respChanClosed, cfgVars, dispVars, workVars, quitVars, consVars, panicked, histVars, traceVars>>

\* line 93: defer close(respChan); workerPool has returned.
PoolCloseResp ==
    /\ ~panicked /\ ppc = "closeResp"
    /\ respChanClosed' = TRUE
    /\ ppc' = "done"
    /\ UNCHANGED <<pi, wgCount, idleClosed, cfgVars, dispVars, workVars, quitVars, consVars, panicked, histVars, traceVars>>

----------------------------------------------------------------------------
\* ---- worker, lines 104-119 ----

\* An iteration that hands over the request of the iteration before it.
ReqId_same == IF i > 0 THEN i ELSE i + 1

\* line 77: every iteration builds a new request; it is named by the
\* iteration that built it.
ReqId == i + 1

\* lines 86 and 108-109: the rendezvous on reqChan.  The dispatcher's send
\* completes, its loop increments i, and worker w holds the request.  Go's
\* select picks among its ready cases at random, so this step is enabled
\* whether or not quit is ready as well.
HandoffRun(w) ==
    /\ ~panicked /\ dpc = "send" /\ wpc[w] = "wait"
    /\ dpc' = "select" /\ i' = i + 1
    /\ wpc' = [wpc EXCEPT ![w] = "exec"]
    /\ UNCHANGED <<reqChanClosed, held, cfgVars, poolVars, quitVars, consVars, panicked, histVars>>

Handoff(w) == HandoffRun(w) /\ UNCHANGED traceVars

\* The same step, recording which request worker w now holds.
HandoffTraced(w) ==
    /\ HandoffRun(w)
    /\ wreq' = [wreq EXCEPT ![w] = ReqId]
    /\ accCount' = [accCount EXCEPT ![ReqId] = @ + 1]
    /\ UNCHANGED <<resCount, obsCount, lastFail, logged, lateAcc>>

\* lines 137-141, 156, 164: killWorkers has returned to checkMaxErr; the
\* consumer is returning or has returned.
KillReturned == killCalls > 0 /\ cpc \in {"ret", "done"}

\* The same step, counting the requests accepted after killWorkers returned.
HandoffLate(w) ==
    /\ HandoffRun(w)
    /\ lateAcc' = IF KillReturned THEN lateAcc + 1 ELSE lateAcc
    /\ UNCHANGED <<wreq, accCount, resCount, obsCount, lastFail, logged>>

\* lines 108, 112-113: receive from the closed reqChan, ok is false; return
\* and the deferred wg.Done().
WorkerReqClosed(w) ==
    /\ ~panicked /\ wpc[w] = "wait" /\ reqChanClosed
    /\ wpc' = [wpc EXCEPT ![w] = "exit"]
    /\ wgCount' = wgCount - 1
    /\ UNCHANGED <<ppc, pi, idleClosed, respChanClosed, held, cfgVars, dispVars, quitVars, consVars, panicked, histVars, traceVars>>

\* A worker that also watches quit while it holds a request or a result.
WorkerAtSelect_any(w) == wpc[w] \in {"wait", "exec", "send"}

\* lines 106-107: the worker looks at quit only in the select at the top of
\* its loop, never between accepting a request and handing over its result.
WorkerAtSelect(w) == wpc[w] = "wait"

\* lines 115-116: case <-quit: return, and the deferred wg.Done().
WorkerQuit(w) ==
    /\ ~panicked /\ WorkerAtSelect(w) /\ QuitReady
    /\ quit' = QuitAfterRecv
    /\ wpc' = [wpc EXCEPT ![w] = "exit"]
    /\ wgCount' = wgCount - 1
    /\ UNCHANGED <<ppc, pi, idleClosed, respChanClosed, held, quitClosed, cfgVars, dispVars, consVars, panicked, histVars, traceVars>>

\* What the transport produced, recorded for the history variables: a
\* result is a failure when it carries an error or a status of 400 or more
\* (the cases of lines 153 and 158), and a success reports its size.
IsFailure(r) == r.err \/ r.StatusCode >= 400
ReportedSize(r) == IF r.ContentLength < 0 THEN 0 ELSE r.ContentLength

\* A worker that hands over responses only and goes back to its select
\* after a transport error.
AfterRoundTrip_dropErr(r) == IF r.err THEN "wait" ELSE "send"

\* line 111: whatever RoundTrip returned, response or error, the worker
\* goes on to respChan <- response{resp, err}.
AfterRoundTrip(r) == "send"

\* line 110: resp, err := t.RoundTrip(req); the transport is a black box
\* that returns any of RoundTripResults.
RoundTripRun(w) ==
    /\ ~panicked /\ wpc[w] = "exec"
    /\ \E r \in RoundTripResults :
        /\ held' = [held EXCEPT ![w] = r]
        /\ nOk' = IF IsFailure(r) THEN nOk ELSE nOk + 1
        /\ nFail' = IF IsFailure(r) THEN nFail + 1 ELSE nFail
        /\ sumSizes' = IF IsFailure(r) THEN sumSizes ELSE sumSizes + ReportedSize(r)
        /\ wpc' = [wpc EXCEPT ![w] = AfterRoundTrip(r)]
    /\ UNCHANGED <<killCalls, killSends, drained, closed, cfgVars, dispVars, poolVars, quitVars, consVars, panicked>>

RoundTrip(w) == RoundTripRun(w) /\ UNCHANGED traceVars

\* The same step, recording that the request of worker w has its result.
RoundTripTraced(w) ==
    /\ RoundTripRun(w)
    /\ resCount' = [resCount EXCEPT ![wreq[w]] = @ + 1]
    /\ UNCHANGED <<wreq, accCount, obsCount, lastFail, logged, lateAcc>>

----------------------------------------------------------------------------
\* ---- consumer, checkMaxErr, killWorkers, lines 122-176 ----

\* An accounting that adds the reported length as it is.
CountedSize_raw(r) == r.ContentLength

\* lines 167-170: the size a successful response adds to the total.
CountedSize(r) == IF r.ContentLength >= 0 THEN r.ContentLength ELSE 0

\* A threshold test that fires one failure late.
checkMaxErr_late(n) == n > maxErr /\ maxErr # Unlimited

\* line 136, evaluated on the incremented counter.
checkMaxErr(n) == n >= maxErr /\ maxErr # Unlimited

\* lines 67-71: r.Body dereferences the embedded *http.Response, which is
\* nil when RoundTrip returned an error.
closeBodyPanics(r) == r.nilResp

\* A consumer that writes a line for every failing status.
LogsStatus_always(r) == TRUE

\* line 159: a failing status is logged when it differs from prevStatus.
LogsStatus(r) == r.StatusCode # prevStatus

\* What identifies a failure in the log: the error (line 154) or the status
\* (line 160).
FailId(r) == IF r.err THEN -1 ELSE r.StatusCode

\* lines 151-174: one iteration of for r := range respChan, the rendezvous
\* with worker w blocked in respChan <- response{resp, err} (line 111).
\* r.closeBody() (line 173) is reached only when the case did not return.
ConsumerRecvRun(w) ==
    /\ ~panicked /\ cpc = "recv" /\ wpc[w] = "send"
    /\ wpc' = [wpc EXCEPT ![w] = "wait"]
    /\ held' = [held EXCEPT ![w] = NoResp]
    /\ drained' = drained + 1
    /\ LET r == held[w] IN
       IF r.err THEN
            /\ numErr' = numErr + 1
            /\ UNCHANGED <<conns, size, prevStatus>>
            /\ IF checkMaxErr(numErr + 1)
               THEN cpc' = "kill" /\ killCalls' = killCalls + 1 /\ UNCHANGED <<panicked, closed>>
               ELSE /\ cpc' = cpc /\ panicked' = closeBodyPanics(r) /\ UNCHANGED killCalls
                    /\ closed' = IF closeBodyPanics(r) THEN closed ELSE closed + 1
       ELSE IF r.StatusCode >= ErrStatus THEN
            /\ prevStatus' = r.StatusCode
            /\ numErr' = numErr + 1
            /\ UNCHANGED <<conns, size>>
            /\ IF checkMaxErr(numErr + 1)
               THEN cpc' = "kill" /\ killCalls' = killCalls + 1 /\ UNCHANGED <<panicked, closed>>
               ELSE /\ cpc' = cpc /\ panicked' = closeBodyPanics(r) /\ UNCHANGED killCalls
                    /\ closed' = IF closeBodyPanics(r) THEN closed ELSE closed + 1
       ELSE
            /\ size' = size + CountedSize(r)
            /\ conns' = conns + 1
            /\ cpc' = cpc /\ panicked' = closeBodyPanics(r)
            /\ closed' = IF closeBodyPanics(r) THEN closed ELSE closed + 1
            /\ UNCHANGED <<prevStatus, numErr, killCalls>>
    /\ UNCHANGED <<killSends, nOk, nFail, sumSizes, cfgVars, dispVars, poolVars, quitVars>>

ConsumerRecv(w) == ConsumerRecvRun(w) /\ UNCHANGED traceVars

\* The same step, recording whose record was drained and whether a failure
\* line was written: always for an error (line 154), by LogsStatus for a
\* failing status (lines 159-161), never for a success.
ConsumerRecvTraced(w) ==
    /\ ConsumerRecvRun(w)
    /\ wreq' = [wreq EXCEPT ![w] = 0]
    /\ obsCount' = [obsCount EXCEPT ![wreq[w]] = @ + 1]
    /\ LET r == held[w] IN
       IF r.err THEN
            logged' = TRUE /\ lastFail' = FailId(r)
       ELSE IF r.StatusCode >= ErrStatus THEN
            logged' = LogsStatus(r) /\ lastFail' = FailId(r)
       ELSE
            logged' = FALSE /\ UNCHANGED lastFail
    /\ UNCHANGED <<accCount, resCount, lateAcc>>

\* line 151 and 175: respChan is closed, the range loop ends.
ConsumerRangeEnd ==
    /\ ~panicked /\ cpc = "recv" /\ respChanClosed
    /\ cpc' = "ret"
    /\ UNCHANGED <<conns, size, prevStatus, numErr, cfgVars, dispVars, poolVars, workVars, quitVars, panicked, histVars, traceVars>>

\* line 125: case quit <- true, possible while the buffer has room.
\* A send on a closed channel panics.
KillSend ==
    /\ ~panicked /\ cpc = "kill" /\ quit < QuitCap
    /\ IF quitClosed
       THEN panicked' = TRUE /\ UNCHANGED quit
       ELSE quit' = quit + 1 /\ UNCHANGED panicked
    /\ killSends' = killSends + 1
    /\ UNCHANGED <<quitClosed, killCalls, drained, nOk, nFail, sumSizes, closed, cfgVars, dispVars, poolVars, workVars, consVars, traceVars>>

\* A killWorkers without the default case: it never returns by itself.
KillDefaultReady_never == FALSE

\* line 126: select takes default only when the send case is not ready.
KillDefaultReady == ~(quit < QuitCap)

\* lines 126-127: default: return; then checkMaxErr returns true and the
\* consumer returns (lines 138-141, 156, 164).
KillReturn ==
    /\ ~panicked /\ cpc = "kill" /\ KillDefaultReady
    /\ cpc' = "ret"
    /\ UNCHANGED <<conns, size, prevStatus, numErr, cfgVars, dispVars, poolVars, workVars, quitVars, panicked, histVars, traceVars>>

\* line 146: defer close(quit) runs as consumer returns.
ConsumerReturn ==
    /\ ~panicked /\ cpc = "ret"
    /\ IF quitClosed
       THEN panicked' = TRUE /\ UNCHANGED quitClosed
       ELSE quitClosed' = TRUE /\ UNCHANGED panicked
    /\ cpc' = "done"
    /\ UNCHANGED <<quit, conns, size, prevStatus, numErr, cfgVars, dispVars, poolVars, workVars, histVars, traceVars>>

----------------------------------------------------------------------------
Dispatcher == DispatcherLoopExit \/ DispatcherQuit \/ DispatcherDefault
Pool == PoolSpawn \/ PoolSpawnDone \/ PoolWait \/ PoolCloseIdle \/ PoolCloseResp
Worker(w) == Handoff(w) \/ WorkerReqClosed(w) \/ WorkerQuit(w) \/ RoundTrip(w)
Consumer == (\E w \in Workers : ConsumerRecv(w)) \/ ConsumerRangeEnd \/ KillSend \/ KillReturn \/ ConsumerReturn

\* The steps that hand over no request, result or record.
NextOther ==
    \/ DispatcherLoopExit
    \/ DispatcherQuit
    \/ DispatcherDefault
    \/ PoolSpawn
    \/ PoolSpawnDone
    \/ PoolWait
    \/ PoolCloseIdle
    \/ PoolCloseResp
    \/ \E w \in Workers : WorkerReqClosed(w)
    \/ \E w \in Workers : WorkerQuit(w)
    \/ ConsumerRangeEnd
    \/ KillSend
    \/ KillReturn
    \/ ConsumerReturn

Next ==
    \/ NextOther
    \/ \E w \in Workers : Handoff(w)
    \/ \E w \in Workers : RoundTrip(w)
    \/ \E w \in Workers : ConsumerRecv(w)

\* The same program with the trace of requests and log lines recorded.
NextTraced ==
    \/ NextOther
    \/ \E w \in Workers : HandoffTraced(w)
    \/ \E w \in Workers : RoundTripTraced(w)
    \/ \E w \in Workers : ConsumerRecvTraced(w)

Spec == Init /\ [][Next]_vars

\* Every goroutine that can take a step eventually takes one.
Fairness ==
    /\ WF_vars(Dispatcher)
    /\ WF_vars(Pool)
    /\ WF_vars(Consumer)
    /\ \A w \in Workers : WF_vars(Worker(w))

FairSpec == Spec /\ Fairness

SpecTraced == Init /\ [][NextTraced]_vars

\* The same program with the requests accepted after cancellation counted.
NextLate ==
    \/ NextOther
    \/ \E w \in Workers : HandoffLate(w)
    \/ \E w \in Workers : RoundTrip(w)
    \/ \E w \in Workers : ConsumerRecv(w)

SpecLate == Init /\ [][NextLate]_vars

\* The program started with a urlStr that NewRequest may reject.
SpecNewReq == InitNewReq /\ [][Next]_vars


----------------------------------------------------------------------------
\* ---- a second call of killWorkers ----

\* killWorkers (lines 122-130) called once more by the consumer after its
\* first call has returned and before the deferred close(quit).
FireAgain ==
    /\ ~panicked /\ cpc = "ret" /\ killCalls = 1 /\ ~quitClosed
    /\ cpc' = "kill"
    /\ killCalls' = killCalls + 1
    /\ UNCHANGED <<conns, size, prevStatus, numErr, killSends, drained, nOk, nFail, sumSizes, closed,
                   cfgVars, dispVars, poolVars, workVars, quitVars, panicked, traceVars>>

NextKill == Next \/ FireAgain

SpecKill == Init /\ [][NextKill]_vars

----------------------------------------------------------------------------
\* ---- properties ----

InFlight == Cardinality({w \in Workers : wpc[w] \in {"exec", "send"}})
Spawned == {w \in Workers : wpc[w] # "unspawned"}
Terminated == cpc = "done" \/ panicked

\* C1: in a run where the transport reports no failure, the consumer
\* returns, and when it has returned conns = reqs and size is the sum of
\* the non-negative reported sizes of all responses.
C1_AllSucceed ==
    /\ [](((cpc = "done" /\ nFail = 0) => (conns = reqs /\ size = sumSizes /\ nOk = reqs)))
    /\ <>(cpc = "done" \/ nFail > 0)

C1_Witness ==
    /\ cpc = "done" /\ nFail = 0
    /\ reqs = 3 /\ max = 2 /\ conns = 3 /\ size = 30

\* C2: when every request fails and the threshold K is not unlimited (and
\* can be reached, K <= reqs), the run ends with numErr = K and conns = 0.
C2_AllFail ==
    (Terminated /\ nOk = 0 /\ maxErr # Unlimited /\ maxErr <= reqs)
        => (numErr = maxErr /\ conns = 0)

\* C3: with maxErr = -1 killWorkers is never called and a run that has
\* ended has drained reqs records, whatever the failures were.
C3_Unlimited ==
    maxErr = Unlimited => (killCalls = 0 /\ (Terminated => drained = reqs))

\* C4: the number of requests accepted by a worker and not yet handed to
\* the consumer never exceeds max.
C4_InFlightBound == InFlight <= max

C4_Witness == max = 2 /\ reqs = 3 /\ InFlight = 2 /\ \E w \in Workers : wpc[w] = "send"

\* C5: workerPool spawns exactly max workers, and respChan is closed only
\* when every one of them has exited.
C5_PoolExact ==
    /\ Cardinality(Spawned) = pi
    /\ pi <= max
    /\ (ppc # "spawn" => pi = max)
    /\ (ppc \in {"closeIdle", "closeResp", "done"} \/ respChanClosed)
            => \A w \in Spawned : wpc[w] = "exit"

C5_Witness ==
    /\ respChanClosed /\ max = 2 /\ Cardinality(Spawned) = 2
    /\ \A w \in Spawned : wpc[w] = "exit"

\* C6: no worker stays blocked after the consumer has returned: once the
\* consumer is done, no worker is in respChan <- ... , a send that nobody
\* will ever receive and that keeps wg.Wait() from returning.
C6_NoWorkerBlocked ==
    cpc = "done" => \A w \in Workers : wpc[w] # "send"

\* C7: a worker that is waiting while cancellation has been fired (quit
\* holds a token or is closed) does not accept one more request.
C7_NoAcceptAfterCancel ==
    [][\A w \in Workers : (wpc[w] = "wait" /\ QuitReady) => wpc'[w] # "exec"]_vars

\* C8: when numErr reaches the threshold the consumer calls killWorkers
\* exactly once and returns without receiving another record.
C8_FireOnce ==
    /\ [](killCalls <= 1)
    /\ []((maxErr # Unlimited /\ numErr >= maxErr)
            => (killCalls = 1 /\ cpc \in {"kill", "ret", "done"}))
    /\ []((maxErr = Unlimited \/ numErr < maxErr) => killCalls = 0)
    /\ [][(maxErr # Unlimited /\ numErr >= maxErr) => drained' = drained]_vars

C8_Witness ==
    /\ killCalls = 1 /\ cpc = "done" /\ maxErr = 2 /\ numErr = 2
    /\ \E w \in Workers : wpc[w] = "send"

\* C9: killWorkers never sends on a closed quit, never panics, is never
\* blocked (one branch of its select can always be taken, and it sends at
\* most 2 * max + 1 tokens in all), and does not touch numErr, in its first
\* call and in a second call made before quit is closed.
C9_KillNonBlocking ==
    /\ [](cpc = "kill" => (~quitClosed /\ ~panicked /\ quit <= QuitCap))
    /\ [](cpc = "kill" => ENABLED (KillSend \/ KillReturn))
    /\ [](killSends <= 2 * QuitCap + 1)
    /\ [][cpc = "kill" => (numErr' = numErr /\ ~panicked')]_vars

C9_Witness ==
    /\ killCalls = 2 /\ cpc = "ret" /\ quit = QuitCap /\ max = 2
    /\ \E w \in Workers : wpc[w] = "exit"
    /\ \E w \in Workers : wpc[w] = "exec"

\* C10: no goroutine panics once the run has started.
C10_NoPanic == ~panicked

\* The consumer's step that drains the record worker w is handing over.
Drains(w) == wpc[w] = "send" /\ wpc'[w] = "wait"

\* C11: size never decreases, and draining a record adds the reported size
\* of a success, 0 when that size is negative, and nothing for a failure.
C11_BytesMonotone ==
    [][/\ size' >= size
       /\ \A w \in Workers : Drains(w) =>
            size' = size + (IF IsFailure(held[w]) THEN 0 ELSE ReportedSize(held[w]))]_vars

C11_Witness == conns = 2 /\ size = 15 /\ numErr = 1 /\ ~panicked

\* C13: the dispatcher never hands over more than reqs descriptors, has
\* handed over exactly reqs when it ends without cancellation, hands over
\* nothing once it has ended, and never goes on to a send from a select
\* in which quit was ready.
C13_DispatcherPrefix ==
    /\ [](i <= reqs)
    /\ []((dpc = "done" /\ killCalls = 0) => i = reqs)
    /\ [][dpc = "done" => (i' = i /\ dpc' = "done")]_vars
    /\ [][(dpc = "select" /\ (quit > 0 \/ quitClosed)) => dpc' # "send"]_vars

C13_Witness == dpc = "done" /\ killCalls = 1 /\ i = 1 /\ reqs = 3 /\ reqChanClosed

\* C14: the dispatcher always gets to close reqChan: it is never left
\* blocked in reqChan <- req when every worker of the pool has exited.
C14_DispatcherCloses ==
    (~panicked /\ dpc = "send" /\ ppc # "spawn")
        => \E w \in Workers : wpc[w] \in {"wait", "exec", "send"}

\* C16: every drained record increments exactly one counter: numErr when
\* it carries an error or a status of 400 or more, leaving conns and size
\* alone, and conns otherwise.
C16_Classify ==
    [][\A w \in Workers : Drains(w) =>
            IF IsFailure(held[w])
            THEN numErr' = numErr + 1 /\ conns' = conns /\ size' = size
            ELSE conns' = conns + 1 /\ numErr' = numErr]_vars

C16_Witness == conns = 1 /\ numErr = 1 /\ prevStatus = 400 /\ size = 15 /\ ~panicked

\* C19: conns + numErr never exceeds the number of descriptors handed
\* over, which never exceeds reqs; a run halted by the threshold returns
\* conns <= reqs - maxErr.
C19_CountBound ==
    /\ conns + numErr <= i
    /\ i <= reqs
    /\ (cpc = "done" /\ killCalls = 1) => conns <= reqs - maxErr

C19_Witness == cpc = "done" /\ killCalls = 1 /\ reqs = 3 /\ maxErr = 1 /\ conns = 2

\* C20: a worker leaves Executing only with the result of its request, and
\* gives up a result only by handing it to the consumer: cancellation does
\* not make it exit in between.
C20_NotInterrupted ==
    [][\A w \in Workers :
        /\ wpc[w] = "exec" => wpc'[w] \in {"exec", "send"}
        /\ wpc[w] = "send" => (wpc'[w] = "send" \/ (wpc'[w] = "wait" /\ drained' = drained + 1))]_vars

C20_Witness ==
    /\ killCalls = 1 /\ quitClosed
    /\ \E w \in Workers : wpc[w] = "send"
    /\ \E w \in Workers : wpc[w] = "exit"

\* C12: the body of every response obtained from the transport is closed
\* by the step that drains and discards its record.
C12_BodyReleased ==
    [][\A w \in Workers : (Drains(w) /\ ~held[w].nilResp) => closed' = closed + 1]_vars

C17_RollingDedup ==
    [][\A w \in Workers : (Drains(w) /\ IsFailure(held[w])) =>
            (logged' <=> (IF held[w].err THEN -1 ELSE held[w].StatusCode) # lastFail)]_vars

C17_Witness ==
    /\ ~logged /\ lastFail = 400 /\ numErr = 2 /\ conns = 1 /\ maxErr = Unlimited

\* C18: every request handed over is accepted once, by one worker; an
\* accepted request yields at most one record; the consumer drains no
\* record of a request that was not accepted and executed before.
C18_ExactlyOnce ==
    \A d \in Descs :
        /\ accCount[d] = (IF d <= i THEN 1 ELSE 0)
        /\ resCount[d] <= accCount[d]
        /\ obsCount[d] <= resCount[d]
        /\ Cardinality({w \in Workers : wreq[w] = d}) <= 1
        /\ Cardinality({w \in Workers : wreq[w] = d}) + obsCount[d] = accCount[d]

C18_Witness ==
    /\ obsCount[1] = 1 /\ accCount[2] = 1 /\ resCount[2] = 1 /\ obsCount[2] = 0
    /\ accCount[3] = 1 /\ resCount[3] = 0
\* C21: no send on a closed channel and no second close.  The dispatcher
\* is never in reqChan <- req, no worker in respChan <- ..., and killWorkers
\* never in quit <- true, once that channel is closed; reqChan is closed
\* only by the ending dispatcher, respChan only by workerPool when all max
\* workers have exited, quit only by the returning consumer; and each of
\* the three closing steps starts from a channel that is still open.
C21_ChannelDiscipline ==
    /\ [](dpc = "send" => ~reqChanClosed)
    /\ [](\A w \in Workers : wpc[w] = "send" => ~respChanClosed)
    /\ [](cpc = "kill" => ~quitClosed)
    /\ [](reqChanClosed => dpc = "done")
    /\ [](respChanClosed =>
            (ppc = "done" /\ pi = max /\ \A w \in Spawned : wpc[w] = "exit"))
    /\ [](quitClosed => cpc = "done")
    /\ [][(dpc # "done" /\ dpc' = "done") => (~reqChanClosed /\ reqChanClosed')]_vars
    /\ [][(ppc = "closeResp" /\ ppc' = "done") => (~respChanClosed /\ respChanClosed')]_vars
    /\ [][(cpc = "ret" /\ cpc' = "done") => (~quitClosed /\ quitClosed' /\ ~panicked')]_vars
    /\ [][/\ reqChanClosed => reqChanClosed'
          /\ respChanClosed => respChanClosed'
          /\ quitClosed => quitClosed']_vars

C21_Witness ==
    /\ reqChanClosed /\ respChanClosed /\ quitClosed
    /\ killCalls = 1 /\ killSends = 2 /\ max = 2

\* C23: with a threshold, numErr never exceeds maxErr; the consumer comes
\* back from killWorkers (and logs the limit) at most once, never entering
\* it again; and a consumer that returned early has numErr = maxErr.
C23_ThresholdExact ==
    /\ [](maxErr # Unlimited => numErr <= maxErr)
    /\ [](killCalls <= 1 /\ (cpc = "kill" => killCalls = 1))
    /\ []((killCalls = 1 /\ cpc \in {"kill", "ret", "done"}) => numErr = maxErr)
    /\ [][(cpc \in {"ret", "done"}) => (cpc' \in {"ret", "done"})]_vars
    /\ [][(cpc = "kill" /\ cpc' = "ret") => (killCalls = 1 /\ killCalls' = 1)]_vars

C23_Witness ==
    /\ cpc = "done" /\ killCalls = 1 /\ maxErr = 2 /\ numErr = 2 /\ conns = 1

\* C24: while the consumer is draining, the descriptors handed over are
\* the records counted in conns and numErr plus the workers that hold a
\* request or an undelivered result; every drained record is counted.
C24_Conservation ==
    cpc = "recv" =>
        /\ i = conns + numErr + InFlight
        /\ drained = conns + numErr

C24_Witness ==
    /\ cpc = "recv" /\ ~panicked /\ i = 3 /\ conns = 1 /\ numErr = 1 /\ InFlight = 1
    /\ \E w \in Workers : wpc[w] = "wait"
\* C22: once killWorkers has returned, at most one more request is
\* accepted by a worker, and a dispatcher that comes to its select with
\* requests left finds quit ready (a token or the closed channel).
C22_OneMoreAccepted ==
    /\ lateAcc <= 1
    /\ (KillReturned /\ dpc = "select" /\ DispatcherLoopCond) => QuitReady

\* C25: under fair scheduling the consumer returns in every run, because
\* respChan was closed or because the threshold was reached, and closes
\* quit, so that main goes on to the statistics.
C25_ConsumerReturns == <>(cpc = "done" /\ quitClosed)
====
